---------------------------- MODULE Spec2Model ----------------------------
(***************************************************************************)
(* A model of allatom.py: the protocol execution state machine (class     *)
(* Protocol, run_protocol) with its on-disk records, and the layered      *)
(* directory overlay (overlay_directories, should_ignore).                *)
(*                                                                         *)
(* Two specifications share the module.  Spec drives Protocol instances   *)
(* over the log directories of their roots; MergeSpec calls               *)
(* overlay_directories on a small file system.  The variables of the part *)
(* a specification does not drive keep their initial values.              *)
(***************************************************************************)
EXTENDS Integers, Sequences, FiniteSets, TLC

(***************************************************************************)
(* Bounds of the model.                                                    *)
(***************************************************************************)
\* Number of Protocol objects that can be alive in the process.
NInst == 2
\* How many times the script of one root may be started.
MaxLaunch == 2
\* How many consecutive overlay_directories calls are made with the same
\* arguments.
MaxCalls == 2
\* How many sources a call is given at most.
MaxSources == 2
\* Number of protocols get_tests discovers, each with a root of its own.
NTests == 2
\* How many times main is run over the same protocols.
MaxBatches == 2

(***************************************************************************)
(* Text: file contents and path strings are sequences of one-character     *)
(* strings, so that formatting, parsing and substring search are computed. *)
(***************************************************************************)
Digits == <<"0", "1", "2", "3", "4", "5", "6", "7", "8", "9">>

IsDigit(c) == \E d \in 1..10 : Digits[d] = c

DigitValue(c) == (CHOOSE d \in 1..10 : Digits[d] = c) - 1

IsSpace(c) == c \in {" ", "\n", "\t"}

RECURSIVE NatToStr(_)
NatToStr(n) ==
    IF n < 10 THEN <<Digits[n + 1]>>
    ELSE Append(NatToStr(n \div 10), Digits[(n % 10) + 1])

\* str(n) of a Python int.
IntToStr(n) == IF n < 0 THEN <<"-">> \o NatToStr(0 - n) ELSE NatToStr(n)

\* What print(value, file=outfile) writes: the decimal text and a newline.
PrintInt(n) == IntToStr(n) \o <<"\n">>

RECURSIVE LStrip(_)
LStrip(s) == IF s # <<>> /\ IsSpace(Head(s)) THEN LStrip(Tail(s)) ELSE s

RECURSIVE RStrip(_)
RStrip(s) ==
    IF s # <<>> /\ IsSpace(s[Len(s)]) THEN RStrip(SubSeq(s, 1, Len(s) - 1))
    ELSE s

RECURSIVE DigitsToNat(_)
DigitsToNat(s) ==
    IF s = <<>> THEN 0
    ELSE 10 * DigitsToNat(SubSeq(s, 1, Len(s) - 1)) + DigitValue(s[Len(s)])

\* int(text): surrounding whitespace is dropped, an optional sign, then at
\* least one digit and nothing else; anything else is a ValueError.
ParseInt(text) ==
    LET body == RStrip(LStrip(text))
        signed == body # <<>> /\ Head(body) \in {"-", "+"}
        digits == IF signed THEN Tail(body) ELSE body
    IN  IF digits = <<>> \/ \E k \in 1..Len(digits) : ~IsDigit(digits[k])
        THEN [ok |-> FALSE, val |-> 0]
        ELSE [ok |-> TRUE,
              val |-> IF signed /\ Head(body) = "-"
                      THEN 0 - DigitsToNat(digits)
                      ELSE DigitsToNat(digits)]

(***************************************************************************)
(* The protocol part.                                                      *)
(***************************************************************************)
\* Protocol roots; each exists and holds a metadata file.  Instances of one
\* root share its log directory, which is where they can interfere.
Roots == {"r1"}

Insts == 1..NInst

\* Statuses process.wait() returns: success, a failure (two digits), and the
\* negative value of a child killed by a signal.
ExitCodes == {0, 12, -9}

\* Verdicts a script writes to SUCCESS_CODE.
SuccessCodes == {0, 1}

\* Optional values: None, or Some(v) holding v.
None == <<>>

Some(v) == <<v>>

Val(o) == o[1]

\* A file that does not exist (no text is equal to it).
Absent == <<"absent">>

NoRoot == "noroot"

VARIABLES
    \* --- protocol part ---
    logdir,         \* root -> what is at log_directory: "dir", "file",
                    \* "absent" (free, its parent exists) or "orphan" (free,
                    \* its parent directory is missing too)
    exitFile,       \* root -> Absent or the text of <log_dir>/EXIT_CODE
    successFile,    \* root -> Absent or the text of <log_dir>/SUCCESS_CODE
    outLog,         \* root -> Absent or the content of <log_dir>/stdout.log
    errLog,         \* root -> Absent or the content of <log_dir>/stderr.log
    launches,       \* root -> number of times the script was started
    ranStatus,      \* root -> status of the last completed run, or None
    instRoot,       \* instance -> its root, NoRoot before construction
    selfExitCode,   \* instance -> self._exit_code
    observed,       \* instance -> the exit code it reported since it was
                    \* constructed or last forced to run again, or None
    last            \* the last operation and what it returned or raised

pvars == <<logdir, exitFile, successFile, outLog, errLog, launches, ranStatus,
           instRoot, selfExitCode, observed, last>>

VARIABLES
    \* --- overlay part ---
    fs,             \* the file system: path -> DirNode or file content
    sources,        \* the sources argument
    destination,    \* the destination argument
    ignore,         \* the ignore argument
    scandirOrder,   \* the order in which a directory lists its entries
    calls,          \* overlay_directories calls made so far
    result          \* what the last call raised and did

mvars == <<fs, sources, destination, ignore, scandirOrder, calls, result>>

VARIABLES
    \* --- batch part: the loop of main over the discovered protocols ---
    mainPc,         \* where main is: "run", "status", "report", "done",
                    \* "aborted" (an exception left main), "idle"
    mainNext,       \* the protocol the loop is at
    testCache,      \* self._exit_code of the Protocol the loop holds
    printed,        \* protocol -> the status main printed for it, or ""
    report,         \* protocol -> the status report_txt printed, or ""
    ranBy,          \* the protocols run() was called on
    raisedFor,      \* the protocols whose run() raised
    mainExc,        \* the exception that left main, or "none"
    batches         \* how many times main was started

bvars == <<mainPc, mainNext, testCache, printed, report, ranBy, raisedFor,
           mainExc, batches>>

VARIABLES
    \* --- concurrent part: one run() per protocol, interleaved ---
    logDirOf,       \* protocol -> the directory its metadata gives as
                    \* root / log_dir (the key of its records on disk)
    proc,           \* protocol -> where its run() is and what it holds
    plan,           \* protocol -> how its child will behave
    expected        \* protocol -> what run_protocol yields when run alone

cvars == <<logDirOf, proc, plan, expected>>

vars == <<pvars, mvars, bvars, cvars>>

\* The records and logs of the log directories.
disk == <<logdir, exitFile, successFile, outLog, errLog>>

\* Output captured from the n-th start of the script on a stream.
Output(stream, n) == <<stream>> \o NatToStr(n)

\* A log file just opened with mode 'w'.
EmptyLog == <<>>

(***************************************************************************)
(* open(path) for reading a file of the log directory of root r, where     *)
(* file is the function holding that file for every root.                  *)
(***************************************************************************)
OpenRead(r, file) ==
    IF logdir[r] = "file" THEN [exc |-> "NotADirectoryError", text |-> <<>>]
    ELSE IF logdir[r] \in {"absent", "orphan"} \/ file[r] = Absent
         THEN [exc |-> "FileNotFoundError", text |-> <<>>]
         ELSE [exc |-> "none", text |-> file[r]]

(***************************************************************************)
(* Protocol.exit_code for a cached value c and root r: the value returned  *)
(* (ret), the exception raised (exc) and the new self._exit_code (cache).  *)
(***************************************************************************)
exit_code_NoCache(c, r) ==
    LET f == OpenRead(r, exitFile)
        v == ParseInt(f.text)
    IN  IF f.exc = "none" /\ v.ok
        THEN [ret |-> Some(v.val), exc |-> "none", cache |-> Some(v.val)]
        ELSE [ret |-> c, exc |-> "none", cache |-> c]

exit_code(c, r) ==
    IF c # None THEN [ret |-> c, exc |-> "none", cache |-> c]
    ELSE LET f == OpenRead(r, exitFile)
         IN  IF f.exc = "FileNotFoundError"
             THEN [ret |-> None, exc |-> "none", cache |-> c]
             ELSE IF f.exc # "none"
                  THEN [ret |-> None, exc |-> f.exc, cache |-> c]
                  ELSE LET v == ParseInt(f.text)
                       IN  IF v.ok
                           THEN [ret |-> Some(v.val), exc |-> "none",
                                 cache |-> Some(v.val)]
                           ELSE [ret |-> None, exc |-> "ValueError", cache |-> c]

\* Protocol.success_code for root r.
success_code(r) ==
    LET f == OpenRead(r, successFile)
    IN  IF f.exc = "FileNotFoundError" THEN [ret |-> None, exc |-> "none"]
        ELSE IF f.exc # "none" THEN [ret |-> None, exc |-> f.exc]
             ELSE LET v == ParseInt(f.text)
                  IN  IF v.ok THEN [ret |-> Some(v.val), exc |-> "none"]
                      ELSE [ret |-> None, exc |-> "ValueError"]

\* Protocol.stdout / Protocol.stderr: iterating the captured log.
ReadLog_EmptyWhenMissing(r, log) ==
    LET f == OpenRead(r, log)
    IN  IF f.exc = "none" THEN [ret |-> f.text, exc |-> "none"]
        ELSE [ret |-> <<>>, exc |-> "none"]

ReadLog(r, log) ==
    LET f == OpenRead(r, log)
    IN  IF f.exc = "FileNotFoundError"
        THEN [ret |-> None, exc |-> "ProtocolNotRunError"]
        ELSE IF f.exc # "none" THEN [ret |-> None, exc |-> f.exc]
             ELSE [ret |-> f.text, exc |-> "none"]

stdout(r) == ReadLog(r, outLog)

stderr(r) == ReadLog(r, errLog)

\* The exit code a Protocol constructed now for root r would report.
FreshExitCode(r) == exit_code(None, r)

\* The value instance i reports now.
ExitCodeOf(i) == exit_code(selfExitCode[i], instRoot[i])

Alive(i) == instRoot[i] # NoRoot

\* The record of an operation: what was called on which instance, what it
\* returned (ret) or raised (exc), whether the script was started, whether
\* anything in the log directory was created, written or truncated, and
\* what the instance knew before: known (its exit code was known) and pre
\* (the value exit_code would have returned).
Op(op, i, force, ret, exc, launched, wrote, known, pre) ==
    [op |-> op, inst |-> i, force |-> force, ret |-> ret, exc |-> exc,
     launched |-> launched, wrote |-> wrote, known |-> known, pre |-> pre]

(***************************************************************************)
(* Initially no Protocol exists and no script has run.  A log directory    *)
(* path is free (with or without its parent directory), an (empty)         *)
(* directory, or taken by a regular file.                                  *)
(***************************************************************************)
PStart ==
    /\ exitFile = [r \in Roots |-> Absent]
    /\ successFile = [r \in Roots |-> Absent]
    /\ outLog = [r \in Roots |-> Absent]
    /\ errLog = [r \in Roots |-> Absent]
    /\ launches = [r \in Roots |-> 0]
    /\ ranStatus = [r \in Roots |-> None]
    /\ instRoot = [i \in Insts |-> NoRoot]
    /\ selfExitCode = [i \in Insts |-> None]
    /\ observed = [i \in Insts |-> None]
    /\ last = Op("init", 0, FALSE, None, "none", FALSE, FALSE, FALSE, None)

PInit ==
    /\ logdir \in [Roots -> {"absent", "orphan", "dir", "file"}]
    /\ PStart

\* The protocol part at rest, for the specification of the overlay part.
PIdle ==
    /\ logdir = [r \in Roots |-> "absent"]
    /\ PStart

\* Protocol.__init__: a new object for root r, with an empty cache.
New(i, r) ==
    /\ ~Alive(i)
    /\ instRoot' = [instRoot EXCEPT ![i] = r]
    /\ selfExitCode' = [selfExitCode EXCEPT ![i] = None]
    /\ last' = Op("new", i, FALSE, None, "none", FALSE, FALSE, FALSE, None)
    /\ UNCHANGED <<disk, launches, ranStatus, observed>>
    /\ UNCHANGED <<mvars, bvars, cvars>>

\* Reading the exit_code property, which caches what it read from disk.
ReadExitCode(i) ==
    /\ Alive(i)
    /\ \E e \in {ExitCodeOf(i)} :
           /\ selfExitCode' = [selfExitCode EXCEPT ![i] = e.cache]
           /\ observed' = [observed EXCEPT
                             ![i] = IF @ = None THEN e.ret ELSE @]
           /\ last' = Op("exit_code", i, FALSE, e.ret, e.exc, FALSE, FALSE,
                         e.ret # None, e.ret)
    /\ UNCHANGED <<disk, launches, ranStatus, instRoot>>
    /\ UNCHANGED <<mvars, bvars, cvars>>

\* Reading success_code, stdout or stderr: no state is changed.
ReadOutcome(i) ==
    /\ Alive(i)
    /\ \E what \in {"success_code", "stdout", "stderr"} :
         LET res == CASE what = "success_code" -> success_code(instRoot[i])
                      [] what = "stdout" -> stdout(instRoot[i])
                      [] what = "stderr" -> stderr(instRoot[i])
         IN  last' = Op(what, i, FALSE, res.ret, res.exc, FALSE, FALSE,
                        FALSE, None)
    /\ UNCHANGED <<disk, launches, ranStatus, instRoot, selfExitCode,
                   observed>>
    /\ UNCHANGED <<mvars, bvars, cvars>>

\* run(): the test that decides whether run_protocol is called.  code is
\* what the exit_code property returns (the test does not depend on it when
\* force is set), cached is self._exit_code before the call.
ShouldRun_CacheOnly(force, code, cached) == force \/ cached = None

ShouldRun_IgnoreForce(force, code, cached) == code = None

ShouldRun(force, code, cached) == force \/ code = None

\* The text run_protocol records in EXIT_CODE for a status.
WriteExitCode_NoSign(status) == PrintInt(IF status < 0 THEN 0 - status ELSE status)

WriteExitCode(status) == PrintInt(status)

\* Lines 354-358: the log directory is made when nothing is at its path,
\* with its missing parents when parents is set; a path taken by something
\* else than a directory is refused.
MakeLogDir_NoParents(kind, parents) ==
    CASE kind = "file" -> [kind |-> kind, exc |-> "NotADirectoryError"]
      [] kind = "dir" -> [kind |-> kind, exc |-> "none"]
      [] kind = "absent" -> [kind |-> "dir", exc |-> "none"]
      [] kind = "orphan" -> [kind |-> kind, exc |-> "FileNotFoundError"]

MakeLogDir(kind, parents) ==
    CASE kind = "file" -> [kind |-> kind, exc |-> "NotADirectoryError"]
      [] kind = "dir" -> [kind |-> kind, exc |-> "none"]
      [] kind = "absent" -> [kind |-> "dir", exc |-> "none"]
      [] kind = "orphan" ->
            IF parents THEN [kind |-> "dir", exc |-> "none"]
            ELSE [kind |-> kind, exc |-> "FileNotFoundError"]

\* Popen raises (lines 364-368): the with block closes the two logs, which
\* were opened for writing, and the exception leaves run_protocol before
\* line 372; opened is the log directory at that point.
LaunchFailure_Recorded(opened) ==
    [disk |-> [opened EXCEPT !.exitFile = PrintInt(127)],
     exc |-> "LaunchError", ret |-> None]

LaunchFailure(opened) == [disk |-> opened, exc |-> "LaunchError", ret |-> None]

(***************************************************************************)
(* run_protocol on root r.  started: whether Popen could start the child;  *)
(* status: what process.wait() returned; verdict: what the script wrote to *)
(* SUCCESS_CODE (None when it wrote nothing).  The result is the new disk  *)
(* state, the exception raised and the value returned.                     *)
(***************************************************************************)
run_protocol(r, started, status, verdict) ==
    LET cur == [logdir |-> logdir[r], exitFile |-> exitFile[r],
                successFile |-> successFile[r], outLog |-> outLog[r],
                errLog |-> errLog[r], launched |-> FALSE]
        made == MakeLogDir(logdir[r], TRUE)
    IN  IF made.exc # "none"
        THEN [disk |-> cur, exc |-> made.exc, ret |-> None]
        ELSE LET opened == [cur EXCEPT !.logdir = made.kind,
                                       !.outLog = EmptyLog,
                                       !.errLog = EmptyLog]
             IN  IF ~started
                 THEN LaunchFailure(opened)
                 ELSE LET n == launches[r] + 1
                          ran == [opened EXCEPT
                                    !.launched = TRUE,
                                    !.outLog = Output("out", n),
                                    !.errLog = Output("err", n),
                                    !.successFile =
                                        IF verdict = None THEN @
                                        ELSE PrintInt(Val(verdict)),
                                    !.exitFile = WriteExitCode(status)]
                      IN  [disk |-> ran, exc |-> "none", ret |-> Some(status)]

(***************************************************************************)
(* Protocol.run(force).  The exit_code property is read unless force is    *)
(* set; when it raises, so does run().  When run_protocol is called, the   *)
(* environment decides whether the child starts, its status and whether    *)
(* it writes a verdict.                                                    *)
(***************************************************************************)
Run(i, force) ==
    /\ Alive(i)
    /\ launches[instRoot[i]] < MaxLaunch
    /\ UNCHANGED <<mvars, bvars, cvars>>
    /\ \E before \in {ExitCodeOf(i)} :
       LET r == instRoot[i]
           known == before.exc = "none" /\ before.ret # None
           e == IF force
                THEN [ret |-> None, exc |-> "none", cache |-> selfExitCode[i]]
                ELSE before
       IN  IF e.exc # "none"
           THEN \* the exit_code property raised: nothing else happens
                /\ last' = Op("run", i, force, None, e.exc, FALSE, FALSE,
                              known, before.ret)
                /\ UNCHANGED <<disk, launches, ranStatus, instRoot,
                               selfExitCode, observed>>
           ELSE IF ~ShouldRun(force, before.ret, selfExitCode[i])
           THEN \* the exit code is known: nothing to do
                /\ selfExitCode' = [selfExitCode EXCEPT ![i] = e.cache]
                /\ observed' = [observed EXCEPT
                                  ![i] = IF @ = None THEN e.ret ELSE @]
                /\ last' = Op("run", i, force, None, "none", FALSE, FALSE,
                              known, before.ret)
                /\ UNCHANGED <<disk, launches, ranStatus, instRoot>>
           ELSE \E started \in BOOLEAN, status \in ExitCodes,
                   verdict \in {None} \cup {Some(v) : v \in SuccessCodes} :
                \E res \in {run_protocol(r, started, status, verdict)} :
                  LET done == res.exc = "none"
                  IN  /\ logdir' = [logdir EXCEPT ![r] = res.disk.logdir]
                      /\ exitFile' = [exitFile EXCEPT ![r] = res.disk.exitFile]
                      /\ successFile' =
                           [successFile EXCEPT ![r] = res.disk.successFile]
                      /\ outLog' = [outLog EXCEPT ![r] = res.disk.outLog]
                      /\ errLog' = [errLog EXCEPT ![r] = res.disk.errLog]
                      /\ launches' =
                           [launches EXCEPT ![r] =
                              IF res.disk.launched THEN @ + 1 ELSE @]
                      /\ ranStatus' =
                           [ranStatus EXCEPT ![r] = IF done THEN res.ret ELSE @]
                      /\ selfExitCode' =
                           [selfExitCode EXCEPT
                              ![i] = IF done THEN res.ret ELSE e.cache]
                      /\ observed' =
                           [observed EXCEPT
                              ![i] = IF done /\ (force \/ @ = None)
                                     THEN res.ret ELSE @]
                      /\ last' = Op("run", i, force, res.ret, res.exc,
                                    res.disk.launched, disk' # disk,
                                    known, before.ret)
                      /\ UNCHANGED instRoot

\* report_txt, lines 387-402: the status given to a protocol whose
\* exit_code is ec; sc is its success_code (read when ec is 0).
report_status(ec, sc) ==
    IF ec = None THEN "[SKIPPED]"
    ELSE IF Val(ec) # 0 THEN "[ERROR]"
    ELSE IF sc = None THEN "[UNKNOWN]"
    ELSE IF Val(sc) # 0 THEN "[FAILED]"
    ELSE "[SUCCESS]"

\* main, lines 457-464: the status printed after run() returned.  None is
\* different from 0 as any other code is.
main_status(ec, sc) ==
    IF ec = None \/ Val(ec) # 0 THEN "[ERROR]"
    ELSE IF sc = None THEN "[NONE]"
    ELSE IF Val(sc) # 0 THEN "[FAILURE]"
    ELSE "[SUCCESS]"

\* report_txt for one protocol of root r, a Protocol made by get_tests:
\* the status it prints, or the exception a property read raises.
ReportOf(r) ==
    LET e == exit_code(None, r)
        sc == success_code(r)
    IN  IF e.exc # "none" THEN [status |-> "", exc |-> e.exc]
        ELSE IF e.ret = None \/ Val(e.ret) # 0
             THEN [status |-> report_status(e.ret, None), exc |-> "none"]
        ELSE IF sc.exc # "none" THEN [status |-> "", exc |-> sc.exc]
        ELSE [status |-> report_status(e.ret, sc.ret), exc |-> "none"]

PNext ==
    \/ \E i \in Insts, r \in Roots : New(i, r)
    \/ \E i \in Insts : ReadExitCode(i)
    \/ \E i \in Insts : ReadOutcome(i)
    \/ \E i \in Insts, force \in BOOLEAN : Run(i, force)


(***************************************************************************)
(* The overlay part: a file system of paths (sequences of names) holding   *)
(* directories and regular files, and overlay_directories on it.           *)
(***************************************************************************)
\* The text of each name.  "ab" holds "b" without being named "b".
NameText ==
    [n \in {"A", "B", "D", "F", "N", "a", "ab"} |->
        CASE n = "ab" -> <<"a", "b">>
          [] OTHER -> <<n>>]

\* str(path): the names joined by the separator.
RECURSIVE PathStr(_)
PathStr(p) ==
    IF Len(p) = 0 THEN <<".">>
    ELSE IF Len(p) = 1 THEN NameText[p[1]]
    ELSE PathStr(SubSeq(p, 1, Len(p) - 1)) \o <<"/">> \o NameText[p[Len(p)]]

\* token in text: text holds token as a contiguous substring.
Contains(text, token) ==
    \E k \in 0..(Len(text) - Len(token)) :
        SubSeq(text, k + 1, k + Len(token)) = token

\* should_ignore(path, ign): some motif of ign occurs in str(path).
should_ignore_NameOnly(path, ign) ==
    \E token \in ign : Contains(NameText[path[Len(path)]], token)

should_ignore(path, ign) ==
    \E token \in ign : Contains(PathStr(path), token)

\* A node of the file system: a directory, or a file with its content.
DirNode == <<>>

IsPrefix(p, q) == Len(p) <= Len(q) /\ SubSeq(q, 1, Len(p)) = p

Parent(p) == SubSeq(p, 1, Len(p) - 1)

\* The working directory (the empty path) always exists.
Exists(f, p) == p = <<>> \/ p \in DOMAIN f

IsDir(f, p) == p = <<>> \/ (p \in DOMAIN f /\ f[p] = DirNode)

IsFile(f, p) == p \in DOMAIN f /\ f[p] # DirNode

\* The file system f with node v at path q.
Put(f, q, v) == [p \in (DOMAIN f) \cup {q} |-> IF p = q THEN v ELSE f[p]]

RECURSIVE Concat(_)
Concat(seqs) == IF seqs = <<>> THEN <<>> ELSE Head(seqs) \o Concat(Tail(seqs))

\* os.scandir(d): the entries of directory d, in the directory's order.
ListDir(f, d, order) ==
    LET present == SelectSeq(order, LAMBDA n : Append(d, n) \in DOMAIN f)
    IN  [k \in 1..Len(present) |-> Append(d, present[k])]

\* The directories below and including d, each before its subdirectories.
RECURSIVE WalkDirs(_, _, _)
WalkDirs(f, d, order) ==
    LET subdirs == SelectSeq(ListDir(f, d, order), LAMBDA p : IsDir(f, p))
    IN  <<d>> \o Concat([k \in 1..Len(subdirs) |->
                            WalkDirs(f, subdirs[k], order)])

\* path.glob('**/*'): every entry below path, a directory's entries
\* before those of its subdirectories.
Glob(f, path, order) ==
    LET dirs == WalkDirs(f, path, order)
    IN  Concat([k \in 1..Len(dirs) |-> ListDir(f, dirs[k], order)])

\* p.relative_to(path)
RelativeTo(p, path) == SubSeq(p, Len(path) + 1, Len(p))

\* OrderedDict update with one (key, value): a known key keeps its place.
DictSet(files, key, value) ==
    IF \E k \in 1..Len(files) : files[k][1] = key
    THEN [k \in 1..Len(files) |->
            IF files[k][1] = key THEN <<key, value>> ELSE files[k]]
    ELSE Append(files, <<key, value>>)

RECURSIVE DictUpdate(_, _)
DictUpdate(files, pairs) ==
    IF pairs = <<>> THEN files
    ELSE DictUpdate(DictSet(files, Head(pairs)[1], Head(pairs)[2]),
                    Tail(pairs))

\* The entries of one source that survive the exclusion, keyed by their
\* path relative to the source.
LayerKept(f, path, ign, order) ==
    LET found == SelectSeq(Glob(f, path, order),
                           LAMBDA p : ~should_ignore(p, ign))
    IN  [k \in 1..Len(found) |-> <<RelativeTo(found[k], path), found[k]>>]

\* The table of lines 314-322: each source in list order updates it.
RECURSIVE MergeTable(_, _, _, _, _)
MergeTable(f, srcs, ign, order, files) ==
    IF srcs = <<>> THEN files
    ELSE MergeTable(f, Tail(srcs), ign, order,
                    DictUpdate(files, LayerKept(f, Head(srcs), ign, order)))

\* ','.join(paths)
RECURSIVE JoinPaths(_)
JoinPaths(paths) ==
    IF Len(paths) = 1 THEN PathStr(paths[1])
    ELSE PathStr(paths[1]) \o <<",">> \o JoinPaths(Tail(paths))

\* The message naming the sources that are not directories (lines 298-303);
\* its fixed wording is kept as one piece of text.
NonDirMessage_FirstOnly(non_dir) ==
    <<"One source path is not a directory: ">> \o PathStr(non_dir[1])

NonDirMessage(non_dir) ==
    IF Len(non_dir) = 1
    THEN <<"One source path is not a directory: ">> \o PathStr(non_dir[1])
    ELSE <<"Some source pathes are not directories: ">> \o JoinPaths(non_dir)

DestinationMessage == <<"Destination must be a directory.">>

\* The state threaded through a call: the file system, the exception
\* raised, and what was created or written: pairs <<path, origin>>.
Step(f, exc, made) == [fs |-> f, exc |-> exc, made |-> made]

\* path.mkdir(): the parent must be a directory and path must be free.
Mkdir(st, p, origin) ==
    IF ~Exists(st.fs, Parent(p)) THEN Step(st.fs, "FileNotFoundError", st.made)
    ELSE IF ~IsDir(st.fs, Parent(p))
         THEN Step(st.fs, "NotADirectoryError", st.made)
    ELSE IF Exists(st.fs, p) THEN Step(st.fs, "FileExistsError", st.made)
    ELSE Step(Put(st.fs, p, DirNode), "none", st.made \cup {<<p, origin>>})

\* path.mkdir(parents=True): missing ancestors are created first.
RECURSIVE MkdirParents(_, _, _)
MkdirParents(st, p, origin) ==
    IF Exists(st.fs, Parent(p)) THEN Mkdir(st, p, origin)
    ELSE LET up == MkdirParents(st, Parent(p), origin)
         IN  IF up.exc # "none" THEN up ELSE Mkdir(up, p, origin)

\* shutil.copy(origin, dst): into dst when dst is a directory, under the
\* name of origin; the content of origin replaces that of the target.
Copy(st, origin, dst) ==
    LET target == IF IsDir(st.fs, dst)
                  THEN Append(dst, origin[Len(origin)]) ELSE dst
    IN  IF origin = target /\ Exists(st.fs, origin)
        THEN Step(st.fs, "SameFileError", st.made)
        ELSE IF ~Exists(st.fs, origin)
             THEN Step(st.fs, "FileNotFoundError", st.made)
        ELSE IF IsDir(st.fs, target)
             THEN Step(st.fs, "IsADirectoryError", st.made)
        ELSE IF ~Exists(st.fs, Parent(target))
             THEN Step(st.fs, "FileNotFoundError", st.made)
        ELSE IF ~IsDir(st.fs, Parent(target))
             THEN Step(st.fs, "NotADirectoryError", st.made)
        ELSE Step(Put(st.fs, target, st.fs[origin]), "none",
                  st.made \cup {<<target, origin>>})

\* One turn of the loop of lines 329-337, for the entry <<dest, origin>>.
CopyEntry(st, dst, entry) ==
    LET full_dest == dst \o entry[1]
        origin == entry[2]
    IN  IF IsDir(st.fs, origin)
        THEN IF ~Exists(st.fs, full_dest) THEN Mkdir(st, full_dest, origin)
             ELSE st
        ELSE LET ready == IF ~Exists(st.fs, Parent(full_dest))
                          THEN Mkdir(st, Parent(full_dest), origin)
                          ELSE st
             IN  IF ready.exc # "none" THEN ready
                 ELSE Copy(ready, origin, full_dest)

RECURSIVE CopyFiles(_, _, _)
CopyFiles(st, dst, files) ==
    IF files = <<>> \/ st.exc # "none" THEN st
    ELSE CopyFiles(CopyEntry(st, dst, Head(files)), dst, Tail(files))

\* The sources for which path.is_dir() is false (line 296): the regular
\* files and the paths that do not exist.
NonDirSources_ExistingOnly(f, srcs) ==
    SelectSeq(srcs, LAMBDA p : Exists(f, p) /\ ~IsDir(f, p))

NonDirSources(f, srcs) == SelectSeq(srcs, LAMBDA p : ~IsDir(f, p))

(***************************************************************************)
(* overlay_directories(srcs, dst, ign) on file system f: the file system   *)
(* it leaves, the exception it raises with its message, the table it built *)
(* and what it created or wrote.                                           *)
(***************************************************************************)
overlay_directories(f, srcs, dst, ign, order) ==
    LET non_dir == NonDirSources(f, srcs)
        Out(st, msg, files) ==
            [fs |-> st.fs, exc |-> st.exc, msg |-> msg, made |-> st.made,
             files |-> files]
        start == Step(f, "none", {})
    IN  IF non_dir # <<>>
        THEN Out(Step(f, "NotADirectoryError", {}), NonDirMessage(non_dir),
                 <<>>)
        ELSE IF Exists(f, dst) /\ ~IsDir(f, dst)
        THEN Out(Step(f, "NotADirectoryError", {}), DestinationMessage, <<>>)
        ELSE LET files == MergeTable(f, srcs, ign, order, <<>>)
                 rooted == IF ~Exists(f, dst)
                           THEN MkdirParents(start, dst, dst)
                           ELSE start
             IN  Out(CopyFiles([rooted EXCEPT !.made = {}], dst, files),
                     <<>>, files)


(***************************************************************************)
(* The inputs of the overlay part.  Sources A and B hold entries a, a/a    *)
(* and a/ab; F is a regular file and N does not exist.  The destination is *)
(* D or D/a (absent, populated, or blocked by a file), or lies in source A.*)
(***************************************************************************)
EmptyFS == [p \in {} |-> DirNode]

NoResult ==
    [exc |-> "none", msg |-> <<>>, made |-> {}, files |-> <<>>,
     before |-> EmptyFS, prevOk |-> FALSE]

Shapes ==
    {sh \in [a : {"none", "file", "dir"}, aa : {"none", "file", "dir"},
             aab : {"none", "file"}] :
        sh.a # "dir" => (sh.aa = "none" /\ sh.aab = "none")}

NoEntries == [a |-> "none", aa |-> "none", aab |-> "none"]

\* A file's content names where the file was first: no two files agree.
NodeOf(kind, p) == IF kind = "dir" THEN DirNode ELSE p

\* The directory root holding the entries of shape sh.
Mount(root, sh) ==
    LET pa == Append(root, "a")
        paths == {root}
                 \cup (IF sh.a # "none" THEN {pa} ELSE {})
                 \cup (IF sh.aa # "none" THEN {Append(pa, "a")} ELSE {})
                 \cup (IF sh.aab # "none" THEN {Append(pa, "ab")} ELSE {})
    IN  [p \in paths |->
            IF p = root THEN DirNode
            ELSE IF p = pa THEN NodeOf(sh.a, p)
            ELSE IF p = Append(pa, "a") THEN NodeOf(sh.aa, p)
            ELSE NodeOf(sh.aab, p)]

FileAt(p) == [q \in {p} |-> p]

SeqsUpTo(S, n) == UNION {[1..k -> S] : k \in 0..n}

Range(seq) == {seq[k] : k \in 1..Len(seq)}

IgnoreChoices ==
    { {}, {<<"b">>}, {<<"B", "/">>}, {<<"a", "/", "a">>}, {<<>>} }

\* The states of D worth telling apart for a destination.
DestStates(dst) ==
    IF dst = <<"D">>
    THEN {EmptyFS, FileAt(<<"D">>)} \cup {Mount(<<"D">>, sh) : sh \in Shapes}
    ELSE IF dst = <<"D", "a">> THEN {EmptyFS, FileAt(<<"D">>)}
    ELSE {EmptyFS}

MInit ==
    /\ calls = 0
    /\ result = NoResult
    /\ scandirOrder \in {<<"a", "ab">>, <<"ab", "a">>}
    /\ ignore \in IgnoreChoices
    /\ \/ \* every source is a directory
          /\ sources \in SeqsUpTo({<<"A">>, <<"B">>}, MaxSources)
          /\ destination \in {<<"D">>, <<"D", "a">>, <<"A">>, <<"A", "a">>}
          /\ \E shA \in Shapes, shB \in Shapes, d \in DestStates(destination) :
                /\ <<"B">> \notin Range(sources) => shB = NoEntries
                /\ (<<"A">> \notin Range(sources) /\ destination[1] # "A")
                     => shA = NoEntries
                /\ fs = Mount(<<"A">>, shA) @@ Mount(<<"B">>, shB)
                          @@ FileAt(<<"F">>) @@ d
       \/ \* some source is a regular file or does not exist
          /\ sources \in {q \in SeqsUpTo({<<"A">>, <<"B">>, <<"F">>, <<"N">>},
                                        MaxSources) :
                            Range(q) \cap {<<"F">>, <<"N">>} # {}}
          /\ destination = <<"D">>
          /\ \E d \in {EmptyFS, FileAt(<<"D">>), Mount(<<"D">>, NoEntries)} :
                fs = Mount(<<"A">>, [a |-> "file", aa |-> "none",
                                     aab |-> "none"])
                       @@ Mount(<<"B">>, NoEntries) @@ FileAt(<<"F">>) @@ d

\* The overlay part at rest, for the specification of the protocol part.
MIdle ==
    /\ calls = 0
    /\ result = NoResult
    /\ scandirOrder = <<"a", "ab">>
    /\ ignore = {}
    /\ sources = <<>>
    /\ destination = <<"D">>
    /\ fs = EmptyFS

\* A call overlay_directories(sources, destination, ignore).
Overlay ==
    /\ calls < MaxCalls
    /\ \E r \in {overlay_directories(fs, sources, destination, ignore,
                                     scandirOrder)} :
           /\ fs' = r.fs
           /\ result' = [exc |-> r.exc, msg |-> r.msg, made |-> r.made,
                         files |-> r.files, before |-> fs,
                         prevOk |-> calls >= 1 /\ result.exc = "none"]
    /\ calls' = calls + 1
    /\ UNCHANGED <<sources, destination, ignore, scandirOrder>>
    /\ UNCHANGED <<pvars, bvars, cvars>>

MNext == Overlay

(***************************************************************************)
(* The batch part: lines 448-466 of main on the protocols get_tests finds. *)
(* The records of protocol t are those of the directory log_directory(t).  *)
(***************************************************************************)
Tests == 1..NTests

\* Protocol.log_directory: root / log_dir, as the metadata says.
log_directory_Shared(t) == logDirOf[1]

log_directory(t) == logDirOf[t]

\* traceback.print_tb(what): it walks a traceback object; given anything
\* else it raises AttributeError (no attribute tb_frame).
print_tb(what) == IF what = "traceback" THEN "none" ELSE "AttributeError"

\* The except clause of lines 453-455, which hands the exception object to
\* print_tb: the exception that leaves it, or "none".
ExceptClause == print_tb("exception")

NoStatus == ""

\* The disk and the counters of the protocol part, for directories dirs.
FreshDisk(dirs, kinds) ==
    /\ logdir \in [dirs -> kinds]
    /\ exitFile = [d \in dirs |-> Absent]
    /\ successFile = [d \in dirs |-> Absent]
    /\ outLog = [d \in dirs |-> Absent]
    /\ errLog = [d \in dirs |-> Absent]
    /\ launches = [d \in dirs |-> 0]
    /\ ranStatus = [d \in dirs |-> None]
    /\ instRoot = [i \in Insts |-> NoRoot]
    /\ selfExitCode = [i \in Insts |-> None]
    /\ observed = [i \in Insts |-> None]
    /\ last = Op("init", 0, FALSE, None, "none", FALSE, FALSE, FALSE, None)

BStart ==
    /\ mainNext = 1
    /\ testCache = None
    /\ printed = [t \in Tests |-> NoStatus]
    /\ report = [t \in Tests |-> NoStatus]
    /\ ranBy = {}
    /\ raisedFor = {}
    /\ mainExc = "none"

\* The batch part at rest.
BIdle ==
    /\ mainPc = "idle"
    /\ batches = 0
    /\ BStart

\* The concurrent part at rest.
CIdle ==
    /\ logDirOf = <<>>
    /\ proc = <<>>
    /\ plan = <<>>
    /\ expected = <<>>

\* main reaches line 448: every protocol has a log directory of its own,
\* free, present or taken by a regular file.
BInit ==
    /\ FreshDisk(Tests, {"absent", "orphan", "dir", "file"})
    /\ mainPc = "run"
    /\ batches = 1
    /\ BStart
    /\ logDirOf = [t \in Tests |-> t]
    /\ proc = <<>>
    /\ plan = <<>>
    /\ expected = <<>>

\* What the loop does when run() raised exc for protocol t.
Raised(t, exc) ==
    /\ raisedFor' = raisedFor \cup {t}
    /\ printed' = [printed EXCEPT ![t] = "[EXCEPTION]"]
    /\ IF ExceptClause = "none"
       THEN /\ mainNext' = t + 1
            /\ mainPc' = IF t = NTests THEN "report" ELSE "run"
            /\ mainExc' = mainExc
       ELSE /\ mainNext' = mainNext
            /\ mainPc' = "aborted"
            /\ mainExc' = ExceptClause

\* Lines 449-455: the loop takes the next Protocol from get_tests, prints
\* its name and calls run(); an exception goes to the except clause.
LoopRun ==
    /\ mainPc = "run"
    /\ LET t == mainNext
           d == log_directory(t)
           e == exit_code(None, d)
       IN  /\ ranBy' = ranBy \cup {t}
           /\ IF e.exc # "none"
              THEN /\ Raised(t, e.exc)
                   /\ UNCHANGED <<disk, launches, ranStatus, testCache>>
              ELSE IF ~ShouldRun(FALSE, e.ret, None)
              THEN /\ testCache' = e.cache
                   /\ mainPc' = "status"
                   /\ UNCHANGED <<disk, launches, ranStatus, mainNext,
                                  printed, raisedFor, mainExc>>
              ELSE \E started \in BOOLEAN, status \in ExitCodes,
                      verdict \in {None} \cup {Some(v) : v \in SuccessCodes} :
                   \E res \in {run_protocol(d, started, status, verdict)} :
                     /\ logdir' = [logdir EXCEPT ![d] = res.disk.logdir]
                     /\ exitFile' = [exitFile EXCEPT ![d] = res.disk.exitFile]
                     /\ successFile' =
                          [successFile EXCEPT ![d] = res.disk.successFile]
                     /\ outLog' = [outLog EXCEPT ![d] = res.disk.outLog]
                     /\ errLog' = [errLog EXCEPT ![d] = res.disk.errLog]
                     /\ launches' =
                          [launches EXCEPT ![d] =
                             IF res.disk.launched THEN @ + 1 ELSE @]
                     /\ ranStatus' =
                          [ranStatus EXCEPT
                             ![d] = IF res.exc = "none" THEN res.ret ELSE @]
                     /\ IF res.exc # "none"
                        THEN /\ Raised(t, res.exc)
                             /\ UNCHANGED testCache
                        ELSE /\ testCache' = res.ret
                             /\ mainPc' = "status"
                             /\ UNCHANGED <<mainNext, printed, raisedFor,
                                            mainExc>>
    /\ UNCHANGED <<report, batches>>
    /\ UNCHANGED <<instRoot, selfExitCode, observed, last>>
    /\ UNCHANGED <<mvars, cvars>>

\* Lines 456-464: run() returned; the status of the protocol is printed.
LoopStatus ==
    /\ mainPc = "status"
    /\ LET t == mainNext
           d == log_directory(t)
           ec == exit_code(testCache, d)
           sc == success_code(d)
       IN  /\ printed' = [printed EXCEPT ![t] = main_status(ec.ret, sc.ret)]
           /\ mainNext' = t + 1
           /\ mainPc' = IF t = NTests THEN "report" ELSE "run"
    /\ testCache' = None
    /\ UNCHANGED <<report, ranBy, raisedFor, mainExc, batches>>
    /\ UNCHANGED pvars
    /\ UNCHANGED <<mvars, cvars>>

\* The exception report_txt raises on protocol t: reading exit_code or
\* success_code for its status, or reading stderr when it failed or
\* errored.  "none" when it raises nothing.
ReportRaises(t) ==
    LET d == log_directory(t)
        r == ReportOf(d)
    IN  IF r.exc # "none" THEN r.exc
        ELSE IF r.status \in {"[FAILED]", "[ERROR]"} /\ stderr(d).exc # "none"
             THEN stderr(d).exc
        ELSE "none"

\* Line 466: report_txt(protocols_path), on Protocols made anew.
Report ==
    /\ mainPc = "report"
    /\ LET failing == {t \in Tests : ReportRaises(t) # "none"}
       IN  IF failing = {}
           THEN /\ report' = [t \in Tests |-> ReportOf(log_directory(t)).status]
                /\ mainPc' = "done"
                /\ mainExc' = mainExc
           ELSE LET first == CHOOSE t \in failing : \A u \in failing : t <= u
                IN  /\ report' =
                         [t \in Tests |->
                            IF t < first
                            THEN ReportOf(log_directory(t)).status
                            ELSE NoStatus]
                    /\ mainPc' = "aborted"
                    /\ mainExc' = ReportRaises(first)
    /\ UNCHANGED <<mainNext, testCache, printed, ranBy, raisedFor, batches>>
    /\ UNCHANGED pvars
    /\ UNCHANGED <<mvars, cvars>>

\* main is started again on the same protocols.
MainAgain ==
    /\ mainPc \in {"done", "aborted"}
    /\ batches < MaxBatches
    /\ batches' = batches + 1
    /\ mainPc' = "run"
    /\ mainNext' = 1
    /\ testCache' = None
    /\ printed' = [t \in Tests |-> NoStatus]
    /\ report' = [t \in Tests |-> NoStatus]
    /\ ranBy' = {}
    /\ raisedFor' = {}
    /\ mainExc' = "none"
    /\ UNCHANGED pvars
    /\ UNCHANGED <<mvars, cvars>>

BNext ==
    \/ LoopRun
    \/ LoopStatus
    \/ Report
    \/ MainAgain

(***************************************************************************)
(* The concurrent part: every protocol has a Protocol object on which      *)
(* run() is called once, and the calls interleave at the file operations   *)
(* of run() and run_protocol.  The metadata of a protocol may give any     *)
(* directory as its log directory, also the one of another protocol.       *)
(***************************************************************************)
\* How the child of a protocol behaves: whether it starts, and its status.
Plans == [started : BOOLEAN, status : ExitCodes]

StartOfRun == [pc |-> "start", exc |-> "none", cache |-> None, n |-> 0,
               launched |-> 0]

CInit ==
    /\ FreshDisk(Tests, {"absent", "orphan", "dir"})
    /\ logDirOf \in [Tests -> Tests]
    /\ plan \in [Tests -> Plans]
    /\ proc = [t \in Tests |-> StartOfRun]
    /\ expected = [t \in Tests |->
                     run_protocol(logDirOf[t], plan[t].started,
                                  plan[t].status, None)]

\* The process of protocol t moves to pc, the rest given by the fields.
Goto(t, pc) == [proc EXCEPT ![t].pc = pc]

Raise(t, exc) == [proc EXCEPT ![t].pc = "raised", ![t].exc = exc]

\* Line 99: run() reads the exit_code property.
CReadExit(t) ==
    /\ proc[t].pc = "start"
    /\ LET e == exit_code(None, log_directory(t))
       IN  proc' = IF e.exc # "none" THEN Raise(t, e.exc)
                   ELSE IF ~ShouldRun(FALSE, e.ret, None)
                        THEN [proc EXCEPT ![t].pc = "done",
                                          ![t].cache = e.cache]
                   ELSE Goto(t, "exists")
    /\ UNCHANGED <<pvars, mvars, bvars, logDirOf, plan, expected>>

\* Lines 354 and 356-358: log_directory.exists(), and is_dir() when it does.
CExists(t) ==
    /\ proc[t].pc = "exists"
    /\ LET kind == logdir[log_directory(t)]
       IN  proc' = CASE kind = "dir" -> Goto(t, "open")
                     [] kind = "file" -> Raise(t, "NotADirectoryError")
                     [] OTHER -> Goto(t, "mkdir")
    /\ UNCHANGED <<pvars, mvars, bvars, logDirOf, plan, expected>>

\* Line 355: log_directory.mkdir(parents=True), after exists() was false.
\* The missing parents are made whether they exist by now or not; the
\* directory itself must not exist.
CMkdir(t) ==
    /\ proc[t].pc = "mkdir"
    /\ LET d == log_directory(t)
       IN  IF logdir[d] \in {"dir", "file"}
           THEN /\ proc' = Raise(t, "FileExistsError")
                /\ UNCHANGED logdir
           ELSE /\ proc' = Goto(t, "open")
                /\ logdir' = [logdir EXCEPT ![d] = MakeLogDir(@, TRUE).kind]
    /\ UNCHANGED <<exitFile, successFile, outLog, errLog, launches, ranStatus,
                   instRoot, selfExitCode, observed, last>>
    /\ UNCHANGED <<mvars, bvars, logDirOf, plan, expected>>

\* Lines 360-363: the two logs are opened for writing.
COpen(t) ==
    /\ proc[t].pc = "open"
    /\ LET d == log_directory(t)
       IN  /\ outLog' = [outLog EXCEPT ![d] = EmptyLog]
           /\ errLog' = [errLog EXCEPT ![d] = EmptyLog]
    /\ proc' = Goto(t, "popen")
    /\ UNCHANGED <<logdir, exitFile, successFile, launches, ranStatus,
                   instRoot, selfExitCode, observed, last>>
    /\ UNCHANGED <<mvars, bvars, logDirOf, plan, expected>>

\* Lines 364-368: Popen starts the child, or raises.
CPopen(t) ==
    /\ proc[t].pc = "popen"
    /\ LET d == log_directory(t)
       IN  IF plan[t].started
           THEN /\ launches' = [launches EXCEPT ![d] = @ + 1]
                /\ proc' = [proc EXCEPT ![t].pc = "wait",
                                        ![t].n = launches[d] + 1,
                                        ![t].launched = @ + 1]
           ELSE /\ proc' = Raise(t, "LaunchError")
                /\ UNCHANGED launches
    /\ UNCHANGED <<disk, ranStatus, instRoot, selfExitCode, observed, last>>
    /\ UNCHANGED <<mvars, bvars, logDirOf, plan, expected>>

\* Line 369: the child writes its output to the logs and exits.
CWait(t) ==
    /\ proc[t].pc = "wait"
    /\ LET d == log_directory(t)
       IN  /\ outLog' = [outLog EXCEPT ![d] = Output("out", proc[t].n)]
           /\ errLog' = [errLog EXCEPT ![d] = Output("err", proc[t].n)]
    /\ proc' = Goto(t, "record")
    /\ UNCHANGED <<logdir, exitFile, successFile, launches, ranStatus,
                   instRoot, selfExitCode, observed, last>>
    /\ UNCHANGED <<mvars, bvars, logDirOf, plan, expected>>

\* Lines 371-376 and 100: EXIT_CODE is written and the status cached.
CRecord(t) ==
    /\ proc[t].pc = "record"
    /\ LET d == log_directory(t)
       IN  /\ exitFile' = [exitFile EXCEPT
                             ![d] = WriteExitCode(plan[t].status)]
           /\ ranStatus' = [ranStatus EXCEPT ![d] = Some(plan[t].status)]
    /\ proc' = [proc EXCEPT ![t].pc = "done",
                            ![t].cache = Some(plan[t].status)]
    /\ UNCHANGED <<logdir, successFile, outLog, errLog, launches,
                   instRoot, selfExitCode, observed, last>>
    /\ UNCHANGED <<mvars, bvars, logDirOf, plan, expected>>

CNext ==
    \E t \in Tests :
        \/ CReadExit(t)
        \/ CExists(t)
        \/ CMkdir(t)
        \/ COpen(t)
        \/ CPopen(t)
        \/ CWait(t)
        \/ CRecord(t)

(***************************************************************************)
(* The specifications.                                                     *)
(***************************************************************************)
\* The protocol part starts; the other parts are at rest.
Init == PInit /\ MIdle /\ BIdle /\ CIdle

Spec == Init /\ [][PNext]_vars

\* The overlay part starts; the other parts are at rest.
MergeInit == MInit /\ PIdle /\ BIdle /\ CIdle

MergeSpec == MergeInit /\ [][MNext]_vars

\* main starts on the discovered protocols.
BatchInit == BInit /\ MIdle

BatchSpec == BatchInit /\ [][BNext]_vars

\* One run() per protocol starts; the runs interleave.
ConcInit == CInit /\ MIdle /\ BIdle

ConcSpec == ConcInit /\ [][CNext]_vars

(***************************************************************************)
(* Properties of the protocol part, checked under Spec.                    *)
(***************************************************************************)
\* The last operation was run(force) on instance i.
WasRun(i, force) == last.op = "run" /\ last.inst = i /\ last.force = force

\* An EXIT_CODE record exists on disk for root r.
RecordExists(r) == logdir[r] = "dir" /\ exitFile[r] # Absent

\* C1: when the exit code of a Protocol is known (cached in the instance or
\* persisted in EXIT_CODE), run(force=False) launches nothing, writes or
\* truncates no file of the log directory, and exit_code reads the same
\* value before and after; on every instance, any number of times.
C1_NonForcedRunIsNoOp ==
    \A i \in Insts :
        (WasRun(i, FALSE) /\ last.known)
        => /\ ~last.launched
           /\ ~last.wrote
           /\ last.exc = "none"
           /\ ExitCodeOf(i).ret = last.pre
           /\ ExitCodeOf(i).exc = "none"

\* A non-forced run() has just returned on an instance whose exit code was
\* known, after the script ran once for the root and another instance
\* holds the code too.
C1_Witness ==
    /\ last.op = "run" /\ ~last.force /\ last.known
    /\ last.exc = "none" /\ ~last.launched
    /\ launches[instRoot[last.inst]] = 1
    /\ \E j \in Insts \ {last.inst} : Alive(j) /\ selfExitCode[j] # None

\* C2: after run() completes with the script exiting with status c,
\* exit_code reads back as c from the instance that ran it and from any
\* Protocol constructed afterwards for the same root (from EXIT_CODE).
C2_ExitCodeReadsBack ==
    /\ \A i \in Insts :
         (last.op = "run" /\ last.inst = i /\ last.launched
            /\ last.exc = "none")
         => /\ ExitCodeOf(i).ret = last.ret /\ ExitCodeOf(i).exc = "none"
            /\ last.ret = ranStatus[instRoot[i]]
    /\ \A r \in Roots :
         ranStatus[r] # None
         => /\ FreshExitCode(r).ret = ranStatus[r]
            /\ FreshExitCode(r).exc = "none"

\* run() has just completed with status 0 and another, fresh, Protocol of
\* the same root exists.
C2_Witness ==
    /\ last.op = "run" /\ last.launched /\ last.exc = "none"
    /\ last.ret = Some(0)
    /\ \E j \in Insts \ {last.inst} :
         /\ instRoot[j] = instRoot[last.inst]
         /\ selfExitCode[j] = None

\* C3 (as claimed): for every Protocol, exit_code is None if and only if the
\* script never completed for its root: no EXIT_CODE record exists and no
\* run completed in-process.
C3_NoneIffNeverCompleted ==
    \A i \in Insts :
        Alive(i)
        => ((ExitCodeOf(i).exc = "none" /\ ExitCodeOf(i).ret = None)
            <=> (~RecordExists(instRoot[i]) /\ ranStatus[instRoot[i]] = None))

\* C4: once exit_code of an instance is non-None it keeps its value through
\* every operation that is not a forced run on that instance (non-forced
\* runs, reads, construction of and runs by other instances), and it never
\* returns to None.
C4_ExitCodeStable ==
    \A i \in Insts :
        observed[i] # None
        => /\ ExitCodeOf(i).ret = observed[i]
           /\ ExitCodeOf(i).exc = "none"

\* An instance has just read its exit code again, unchanged, after another
\* instance re-ran the script and recorded a different status.
C4_Witness ==
    /\ last.op = "exit_code" /\ last.exc = "none"
    /\ last.ret = observed[last.inst] /\ last.ret # None
    /\ FreshExitCode(instRoot[last.inst]).ret # None
    /\ FreshExitCode(instRoot[last.inst]).ret # last.ret

\* C5: run(force=True) on a Protocol whose exit code is known starts the
\* script again whatever that code is, and when the run completes the new
\* status is the one cached and the one recorded in EXIT_CODE.
C5_ForcedRunReplaces ==
    \A i \in Insts :
        (WasRun(i, TRUE) /\ last.known)
        => \/ last.exc = "LaunchError"
           \/ /\ last.exc = "none" /\ last.launched
              /\ last.ret # None
              /\ selfExitCode[i] = last.ret
              /\ FreshExitCode(instRoot[i]).ret = last.ret
              /\ FreshExitCode(instRoot[i]).exc = "none"

\* A forced run has just completed on a Protocol whose exit code was known,
\* with a status other than the one it replaces.
C5_Witness ==
    /\ last.op = "run" /\ last.force /\ last.known
    /\ last.launched /\ last.exc = "none"
    /\ launches[instRoot[last.inst]] = 2
    /\ last.ret # last.pre

\* C6: for a fresh Protocol whose log directory does not exist, exit_code
\* and success_code are None and reading stdout or stderr raises
\* ProtocolNotRunError.
C6_FreshProtocolNotRun ==
    \A i \in Insts :
        (Alive(i) /\ selfExitCode[i] = None
           /\ logdir[instRoot[i]] \in {"absent", "orphan"})
        => /\ ExitCodeOf(i).ret = None /\ ExitCodeOf(i).exc = "none"
           /\ success_code(instRoot[i]).ret = None
           /\ success_code(instRoot[i]).exc = "none"
           /\ stdout(instRoot[i]).exc = "ProtocolNotRunError"
           /\ stderr(instRoot[i]).exc = "ProtocolNotRunError"
           /\ (last.inst = i /\ last.op \in {"stdout", "stderr"}
                 => last.exc = "ProtocolNotRunError")
           /\ (last.inst = i /\ last.op \in {"exit_code", "success_code"}
                 => last.ret = None /\ last.exc = "none")

\* stderr has just been read on a fresh Protocol without log directory.
C6_Witness ==
    /\ last.op = "stderr" /\ last.exc = "ProtocolNotRunError"
    /\ selfExitCode[last.inst] = None
    /\ logdir[instRoot[last.inst]] = "absent"

\* C14: when the child cannot be started, run() raises the launch error,
\* EXIT_CODE is neither written nor changed and no cache is modified; a
\* Protocol whose exit code was None still reads None.
C14_LaunchFailureRecordsNothing ==
    /\ [][(last'.op = "run" /\ ~last'.launched
             /\ last'.exc \notin {"none", "NotADirectoryError"})
           => /\ last'.exc = "LaunchError"
              /\ exitFile' = exitFile
              /\ selfExitCode' = selfExitCode
              /\ ranStatus' = ranStatus]_vars
    /\ [](\A i \in Insts :
            (WasRun(i, last.force) /\ last.exc = "LaunchError"
               /\ last.pre = None)
            => /\ ExitCodeOf(i).ret = None
               /\ ExitCodeOf(i).exc = "none"
               /\ FreshExitCode(instRoot[i]).ret = None)

\* run() has just failed to start the child of a Protocol that never ran.
C14_Witness ==
    /\ last.op = "run" /\ last.exc = "LaunchError"
    /\ last.pre = None /\ ~last.known
    /\ exitFile[instRoot[last.inst]] = Absent

\* C15: run() on a Protocol whose log directory path is a regular file
\* raises NotADirectoryError, starts nothing and writes nothing; when the
\* path is free the directory is made, with its missing parent, before
\* the child is started: it exists also when the start fails.
C15_LogDirectory ==
    [][\A i \in Insts :
          (last'.op = "run" /\ last'.inst = i)
          => LET r == instRoot[i]
             IN  /\ logdir[r] = "file"
                    => /\ last'.exc = "NotADirectoryError"
                       /\ ~last'.launched
                       /\ disk' = disk
                 /\ logdir[r] \in {"absent", "orphan"}
                    => /\ last'.exc \in {"none", "LaunchError"}
                       /\ logdir'[r] = "dir"
                       /\ outLog'[r] # Absent /\ errLog'[r] # Absent]_vars

\* A start has just failed for a Protocol whose log directory was made by
\* this run(), and the directory is there.
C15_Witness ==
    /\ last.op = "run" /\ last.exc = "LaunchError" /\ last.wrote
    /\ logdir[instRoot[last.inst]] = "dir"
    /\ launches[instRoot[last.inst]] = 0
    /\ exitFile[instRoot[last.inst]] = Absent

\* The outcome class a printed status stands for.
ClassOf(status) ==
    CASE status = "[SKIPPED]" -> "NotRun"
      [] status = "[ERROR]" -> "ErroredScript"
      [] status \in {"[UNKNOWN]", "[NONE]"} -> "Unscored"
      [] status \in {"[FAILED]", "[FAILURE]"} -> "Failed"
      [] status = "[SUCCESS]" -> "Succeeded"
      [] OTHER -> "none"

\* The class the claim gives to (exit_code, success_code).
ClaimedClass(ec, sc) ==
    IF ec = None THEN "NotRun"
    ELSE IF Val(ec) # 0 THEN "ErroredScript"
    ELSE IF sc = None THEN "Unscored"
    ELSE IF Val(sc) # 0 THEN "Failed"
    ELSE "Succeeded"

\* C13 (as claimed): every protocol gets exactly one class in the report,
\* the one the claim gives to its (exit_code, success_code); and the status
\* main prints after run() returned stands for the same class.
C13_OutcomeClassification ==
    /\ \A ec \in {None} \cup {Some(c) : c \in ExitCodes},
          sc \in {None} \cup {Some(v) : v \in SuccessCodes} :
          ClassOf(report_status(ec, sc)) = ClaimedClass(ec, sc)
    /\ \A i \in Insts :
          Alive(i)
          => /\ ReportOf(instRoot[i]).exc = "none"
             /\ ClassOf(ReportOf(instRoot[i]).status) # "none"
             /\ (WasRun(i, last.force) /\ last.exc = "none")
                  => ClassOf(main_status(ExitCodeOf(i).ret,
                                         success_code(instRoot[i]).ret))
                       = ClassOf(ReportOf(instRoot[i]).status)

\* C16 (as claimed): SUCCESS_CODE changes only while the script runs, and
\* success_code returns the integer of the record when the file exists and
\* None when it does not, whatever the exit code is.
C16_SuccessCodeOwnedByScript ==
    /\ [][successFile' # successFile
           => (last'.op = "run" /\ last'.launched)]_vars
    /\ [](\A i \in Insts :
            Alive(i)
            => LET r == instRoot[i]
                   there == logdir[r] = "dir" /\ successFile[r] # Absent
               IN  /\ success_code(r).exc = "none"
                   /\ there => /\ success_code(r).ret # None
                               /\ PrintInt(Val(success_code(r).ret))
                                     = successFile[r]
                   /\ ~there => success_code(r).ret = None)

\* C20 (as claimed): stdout.log and stderr.log exist only if an exit code is
\* known; reading stdout or stderr raises ProtocolNotRunError exactly when
\* exit_code is None; and when the exit code is known the logs hold the
\* output of the run that recorded it (the latest that was started).
C20_LogsAgreeWithExitCode ==
    \A i \in Insts :
        (Alive(i) /\ logdir[instRoot[i]] # "file")
        => LET r == instRoot[i]
               known == ExitCodeOf(i).exc = "none" /\ ExitCodeOf(i).ret # None
           IN  /\ (logdir[r] = "dir" /\ (outLog[r] # Absent \/ errLog[r] # Absent))
                    => known
               /\ stdout(r).exc = "ProtocolNotRunError" <=> ~known
               /\ stderr(r).exc = "ProtocolNotRunError" <=> ~known
               /\ known => /\ stdout(r).ret = Output("out", launches[r])
                           /\ stderr(r).ret = Output("err", launches[r])

(***************************************************************************)
(* Properties of the overlay part, checked under MergeSpec.                *)
(***************************************************************************)
\* The last call returned without raising.
Completed == calls >= 1 /\ result.exc = "none"

\* The full path of p holds one of the exclusion motifs.
Excluded(p) == \E m \in ignore : Contains(PathStr(p), m)

\* The entries below directory d in file system f.
Below(f, d) == {p \in DOMAIN f : IsPrefix(d, p) /\ p # d}

\* The layers (positions in sources) that define relative path rel: the
\* source held it before the call and no motif excludes it.
Defining(rel) ==
    {k \in 1..Len(sources) :
        /\ (sources[k] \o rel) \in DOMAIN result.before
        /\ ~Excluded(sources[k] \o rel)}

Max(S) == CHOOSE x \in S : \A y \in S : y <= x

\* The relative paths some source holds.
RelPaths ==
    {RelativeTo(p, sources[k]) :
        p \in UNION {Below(result.before, sources[j]) : j \in 1..Len(sources)},
        k \in 1..Len(sources)}

\* C7 (as claimed): for all valid inputs, destination possibly populated,
\* after the merge the content at destination/p is that of the last layer,
\* in list order, that defines p.
C7_LastSourceWins ==
    Completed
    => \A rel \in RelPaths :
          (rel # <<>> /\ Defining(rel) # {})
          => LET winner == sources[Max(Defining(rel))] \o rel
             IN  IsFile(result.before, winner)
                 => /\ (destination \o rel) \in DOMAIN fs
                    /\ fs[destination \o rel] = result.before[winner]

\* C8: an excluded source entry, and everything below it, never reaches the
\* destination: the table holds none of them, nothing is copied from them,
\* no directory is made for them, and in a destination the call created
\* every entry comes from an entry that is not excluded.
C8_ExcludedNeverMerged ==
    calls >= 1
    => /\ \A k \in 1..Len(sources) :
            \A e \in Below(result.before, sources[k]) :
               Excluded(e)
               => /\ \A w \in result.made : ~IsPrefix(e, w[2])
                  /\ \A j \in 1..Len(result.files) :
                        ~IsPrefix(e, result.files[j][2])
       /\ ~Exists(result.before, destination)
            => \A q \in Below(fs, destination) :
                  \E w \in result.made : w[1] = q /\ ~Excluded(w[2])

\* A call completed that copied an entry while a motif excluded a
\* directory of a source together with an entry below it.
C8_Witness ==
    /\ Completed
    /\ result.made # {}
    /\ \E k \in 1..Len(sources) :
          \E e \in Below(result.before, sources[k]) :
             /\ Excluded(e) /\ IsDir(result.before, e)
             /\ Below(result.before, e) # {}
             /\ ~Excluded(sources[k])

\* The entries below the destination, by their path relative to it.
DestTree(f) ==
    [rel \in {RelativeTo(p, destination) : p \in Below(f, destination)} |->
        f[destination \o rel]]

\* C9 (as claimed): a second call with the same arguments, on the
\* destination the first call produced, completes and leaves the
\* destination tree as the first call left it.
C9_MergeIdempotent ==
    (calls >= 2 /\ result.prevOk)
    => /\ result.exc = "none"
       /\ DestTree(fs) = DestTree(result.before)

\* The sources that are not directories.
BadSources == {k \in 1..Len(sources) : ~IsDir(result.before, sources[k])}

\* C10: a call with a source that is not a directory, or with a regular
\* file as destination, raises NotADirectoryError; the message holds the
\* path of every source that is not a directory; and nothing was created
\* or written when it is raised.
C10_NotADirectory ==
    calls >= 1
    => /\ BadSources # {}
            => /\ result.exc = "NotADirectoryError"
               /\ \A k \in BadSources :
                     Contains(result.msg, PathStr(sources[k]))
               /\ fs = result.before
       /\ IsFile(result.before, destination)
            => /\ result.exc = "NotADirectoryError"
               /\ fs = result.before

\* A call was refused for two different sources that are not directories,
\* and another for a destination that is a regular file.
C10_Witness ==
    /\ calls >= 1
    /\ result.exc = "NotADirectoryError"
    /\ \/ \E j \in BadSources, k \in BadSources : sources[j] # sources[k]
       \/ (BadSources = {} /\ IsFile(result.before, destination))

\* The sources that do not exist at all.
MissingSources ==
    {k \in 1..Len(sources) : ~Exists(result.before, sources[k])}

\* C11 (as claimed): a call with a source path that does not exist raises
\* FileNotFoundError, not the NotADirectoryError of a source that exists
\* without being a directory.
C11_MissingSourceNotFound ==
    (calls >= 1 /\ MissingSources # {})
    => result.exc = "FileNotFoundError"

\* C11 (amended): a call with a source path that does not exist raises
\* NotADirectoryError, the error of a source that exists without being a
\* directory, with the missing path in its message, and changes nothing.
C11_MissingSourceNotADirectory ==
    (calls >= 1 /\ MissingSources # {})
    => /\ result.exc = "NotADirectoryError"
       /\ \A k \in MissingSources :
             Contains(result.msg, PathStr(sources[k]))
       /\ fs = result.before

\* A call was refused whose only fault is a source that does not exist.
C11_Witness ==
    /\ calls >= 1
    /\ MissingSources # {}
    /\ BadSources = MissingSources
    /\ ~IsFile(result.before, destination)
    /\ result.exc = "NotADirectoryError"

\* The entries at or below the sources, with their kind and content.
SourceTrees(f) ==
    [p \in {q \in DOMAIN f :
                \E k \in 1..Len(sources) : IsPrefix(sources[k], q)} |-> f[p]]

\* The call was accepted: every source is a directory and the destination
\* is not a regular file.
Accepted ==
    /\ calls >= 1
    /\ BadSources = {}
    /\ ~IsFile(result.before, destination)

\* C12 (as claimed): an accepted call, also one whose destination lies in a
\* source or is a source, leaves the paths and contents under every source
\* as they were.
C12_SourcesUntouched ==
    Accepted => SourceTrees(fs) = SourceTrees(result.before)

\* The call is accepted and no regular file stands on the way to the
\* destination, outside every source.
ValidInput ==
    /\ Accepted
    /\ \A k \in 1..Len(destination) :
          ~IsFile(result.before, SubSeq(destination, 1, k))
    /\ \A k \in 1..Len(sources) : ~IsPrefix(sources[k], destination)

\* C18 (as claimed): a call with valid input completes, and every entry of
\* the merge table is at destination/relative_path with the kind of its
\* winning origin: a directory for a directory, a regular file with the
\* winner's content for a file.
C18_KindOfWinner ==
    ValidInput
    => /\ result.exc = "none"
       /\ \A j \in 1..Len(result.files) :
             LET full_dest == destination \o result.files[j][1]
                 origin == result.files[j][2]
             IN  IF IsDir(result.before, origin)
                 THEN IsDir(fs, full_dest)
                 ELSE /\ IsFile(fs, full_dest)
                      /\ fs[full_dest] = result.before[origin]
                      /\ IsDir(fs, Parent(full_dest))

(***************************************************************************)
(* Properties of the batch part, checked under BatchSpec.                  *)
(***************************************************************************)
\* C17 (as claimed): when run() raises for a protocol the loop goes on: no
\* exception leaves main, and when main ends run() was called on every
\* protocol and the report gave each of them a status.
C17_BatchContinues ==
    raisedFor # {}
    => /\ mainPc # "aborted"
       /\ mainPc = "done"
            => \A t \in Tests : t \in ranBy /\ report[t] # NoStatus

(***************************************************************************)
(* Properties of the concurrent part, checked under ConcSpec.              *)
(***************************************************************************)
\* No two protocols have the same log directory.
DistinctLogDirs ==
    \A t \in Tests, u \in Tests : t # u => logDirOf[t] # logDirOf[u]

Ended(t) == proc[t].pc \in {"done", "raised"}

\* The records and logs of the log directory of protocol t.
DiskOf(t) ==
    LET d == logDirOf[t]
    IN  [logdir |-> logdir[d], exitFile |-> exitFile[d],
         successFile |-> successFile[d], outLog |-> outLog[d],
         errLog |-> errLog[d]]

\* Every run() goes as if it were alone: none raises for a directory that
\* another made meanwhile, and one that has ended started its script once
\* (not at all when the child cannot start), raised and cached what a run
\* alone does, and its records and logs are those of a run alone.
RunsAsIfAlone ==
    \A t \in Tests :
        /\ proc[t].exc # "FileExistsError"
        /\ Ended(t)
             => LET x == expected[t]
                IN  /\ proc[t].launched = IF x.disk.launched THEN 1 ELSE 0
                    /\ proc[t].exc = x.exc
                    /\ proc[t].cache = x.ret
                    /\ DiskOf(t) = [f \in DOMAIN DiskOf(t) |-> x.disk[f]]

\* C19 (as claimed): protocols with pairwise distinct roots (every two
\* protocols here) run as if alone under every interleaving.
C19_DistinctRootsIndependent == RunsAsIfAlone

\* C19 (amended): protocols with pairwise distinct log directories run as
\* if alone under every interleaving.
C19_DistinctLogDirsIndependent == DistinctLogDirs => RunsAsIfAlone

\* Two runs with log directories of their own are both between the test
\* that found no log directory and the creation of it.
C19_Witness ==
    /\ DistinctLogDirs
    /\ proc[1].pc = "mkdir" /\ proc[2].pc = "mkdir"
    /\ logdir[logDirOf[1]] = "orphan"

=============================================================================
